---- MODULE Spec2Model ----
(***************************************************************************)
(* Model of src/include/scoped.h: the per-thread, per-(type, tag) chain of *)
(* abstract_scoped nodes, the polymorphic_scoped holders that own a        *)
(* payload, and scoped_haven.                                              *)
(*                                                                         *)
(* A node is identified by its storage address (1..MaxNodes); NULL is the  *)
(* null pointer.  m_next / m_prev / m_value are the members of the node at *)
(* each address, `live` are the addresses that hold a constructed node.    *)
(* The payload is opaque to the chain; two payloads, 0 (value-initialised)  *)
(* and 4 (the threshold of the tests), tell a transferred payload from the *)
(* destination's own.                                                      *)
(***************************************************************************)
EXTENDS Integers, Sequences, FiniteSets

MaxNodes == 3
MaxHavens == 2

NULL == 0
Nodes == 1..MaxNodes
Ptr == Nodes \cup {NULL}
Values == {0, 4}

VARIABLES
    live,       \* addresses holding a constructed node
    m_next,     \* abstract_scoped::m_next, per address
    m_prev,     \* abstract_scoped::m_prev, per address
    m_value,    \* polymorphic_scoped::m_value, per address
    s_top,      \* thread_local abstract_scoped::s_top
    s_bottom,   \* thread_local abstract_scoped::s_bottom
    havens,     \* the scoped_haven objects alive, innermost last
    hidden,     \* per haven: the chain it found and the nodes constructed inside it
    status,     \* "running" | "ndebug" (an assert was compiled out) | "aborted"
    observe,    \* which of the records below this specification keeps
    attached,   \* nodes attached by a constructor and not since detached
    history,    \* "order": the nodes of `attached`, oldest attachment first
    mid,        \* "order": nodes of `attached` their constructor did not leave at the top
    last,       \* "ops", "havens": the operation that ran last
    lifo,       \* every destruction so far destroyed the youngest node alive
    vec,        \* the std::vector of holders of tests/test_vector.cpp
    caller,     \* the statement of the calling code that is in progress
    parked      \* the anchor, havens and nodes of the thread (or tag) that is not running

vars == <<live, m_next, m_prev, m_value, s_top, s_bottom, havens, hidden, status,
          observe, attached, history, mid, last, lifo, vec, caller, parked>>

(***************************************************************************)
(* The link state an operation of abstract_scoped works on.                *)
(***************************************************************************)
Links == [next |-> m_next, prev |-> m_prev, top |-> s_top, bottom |-> s_bottom]

\* abstract_scoped::is_attached
is_attached(s, n) ==
    s.next[n] # NULL \/ s.prev[n] # NULL \/ s.top = n \/ s.bottom = n

\* the member initialisers m_next(nullptr), m_prev(nullptr) of the constructors
init_links(s, self) ==
    [s EXCEPT !.next[self] = NULL, !.prev[self] = NULL]

\* a plausible bug: insert always pushes at the top, ignoring `above`
insert_at_top(s, self, above) ==
    LET s1 == [s EXCEPT !.next[self] = s.top, !.prev[self] = NULL,
                        !.top = self]
    IN IF s.top # NULL THEN [s1 EXCEPT !.prev[s.top] = self]
       ELSE [s1 EXCEPT !.bottom = self]

\* a plausible bug: insert links the node on the wrong side of `above`
insert_below(s, self, above) ==
    LET ab == IF above # NULL /\ ~is_attached(s, above) THEN s.top ELSE above
        s1 == [s EXCEPT !.prev[self] = ab,
                        !.next[self] = IF ab # NULL THEN s.next[ab] ELSE s.top]
        s2 == IF s1.next[self] # NULL
              THEN [s1 EXCEPT !.prev[s1.next[self]] = self]
              ELSE [s1 EXCEPT !.bottom = self]
        s3 == IF s2.prev[self] # NULL
              THEN [s2 EXCEPT !.next[s2.prev[self]] = self]
              ELSE [s2 EXCEPT !.top = self]
    IN s3

\* a plausible bug: insert takes a detached target as it is, without the fall
\* back to the top
insert_no_fallback(s, self, above) ==
    LET s1 == [s EXCEPT !.next[self] = above,
                        !.prev[self] = IF above # NULL THEN s.prev[above] ELSE s.bottom]
        s2 == IF s1.prev[self] # NULL
              THEN [s1 EXCEPT !.next[s1.prev[self]] = self]
              ELSE [s1 EXCEPT !.top = self]
        s3 == IF s2.next[self] # NULL
              THEN [s2 EXCEPT !.prev[s2.next[self]] = self]
              ELSE [s2 EXCEPT !.bottom = self]
    IN s3

\* abstract_scoped::insert
insert(s, self, above) ==
    LET ab == IF above # NULL /\ ~is_attached(s, above) THEN s.top ELSE above
        s1 == [s EXCEPT !.next[self] = ab,
                        !.prev[self] = IF ab # NULL THEN s.prev[ab] ELSE s.bottom]
        s2 == IF s1.prev[self] # NULL
              THEN [s1 EXCEPT !.next[s1.prev[self]] = self]
              ELSE [s1 EXCEPT !.top = self]
        s3 == IF s2.next[self] # NULL
              THEN [s2 EXCEPT !.prev[s2.next[self]] = self]
              ELSE [s2 EXCEPT !.bottom = self]
    IN s3

\* a plausible bug: detach handles only the top of the chain (a plain stack pop)
detach_top_only(s, self) ==
    IF s.top # self THEN s
    ELSE LET s1 == IF s.next[self] # NULL
                   THEN [s EXCEPT !.prev[s.next[self]] = NULL] ELSE s
             s2 == [s1 EXCEPT !.top = s.next[self]]
             s3 == IF s2.bottom = self THEN [s2 EXCEPT !.bottom = NULL] ELSE s2
         IN [s3 EXCEPT !.next[self] = NULL, !.prev[self] = NULL]

\* a plausible bug: detach pops the top whatever node it is called on, as the
\* destructor of the singly linked variant does
detach_as_pop(s, self) ==
    LET s1 == IF s.next[self] # NULL
              THEN [s EXCEPT !.prev[s.next[self]] = s.prev[self]] ELSE s
        s2 == IF s1.prev[self] # NULL
              THEN [s1 EXCEPT !.next[s1.prev[self]] = s1.next[self]] ELSE s1
        s3 == [s2 EXCEPT !.top = s2.next[self]]
        s4 == IF s3.bottom = self THEN [s3 EXCEPT !.bottom = s3.prev[self]] ELSE s3
    IN [s4 EXCEPT !.next[self] = NULL, !.prev[self] = NULL]

\* abstract_scoped::detach
detach(s, self) ==
    IF ~is_attached(s, self) THEN s
    ELSE LET s1 == IF s.next[self] # NULL
                   THEN [s EXCEPT !.prev[s.next[self]] = s.prev[self]] ELSE s
             s2 == IF s1.prev[self] # NULL
                   THEN [s1 EXCEPT !.next[s1.prev[self]] = s1.next[self]] ELSE s1
             s3 == IF s2.top = self THEN [s2 EXCEPT !.top = s2.next[self]] ELSE s2
             s4 == IF s3.bottom = self THEN [s3 EXCEPT !.bottom = s3.prev[self]] ELSE s3
         IN [s4 EXCEPT !.next[self] = NULL, !.prev[self] = NULL]

\* abstract_scoped::check_class_invariant
check_class_invariant(s) ==
    /\ (s.top = NULL) = (s.bottom = NULL)
    /\ (s.top = NULL \/ s.prev[s.top] = NULL)
    /\ (s.bottom = NULL \/ s.next[s.bottom] = NULL)

\* abstract_scoped::check_instance_invariant
check_instance_invariant(s, n) ==
    /\ (s.next[n] = NULL \/ s.prev[s.next[n]] = n)
    /\ (s.prev[n] = NULL \/ s.next[s.prev[n]] = n)
    /\ (s.top # n \/ s.prev[n] = NULL)
    /\ (s.bottom # n \/ s.next[n] = NULL)
    /\ (\/ s.next[n] # NULL
        \/ s.prev[n] # NULL
        \/ (s.top = n /\ s.bottom = n)
        \/ (s.top # n /\ s.bottom # n))
    /\ (~(s.prev[n] = NULL /\ s.next[n] # NULL) \/ s.top = n)
    /\ (~(s.next[n] = NULL /\ s.prev[n] # NULL) \/ s.bottom = n)

(***************************************************************************)
(* Walks over the links, as a caller does with top()/next() and            *)
(* bottom()/prev().  A walk stops at NULL; it is cut after MaxNodes + 1    *)
(* steps, so a walk that long shows a cycle.                               *)
(***************************************************************************)
RECURSIVE walk_next(_, _, _)
walk_next(nx, p, fuel) ==
    IF p = NULL \/ fuel = 0 THEN <<>>
    ELSE <<p>> \o walk_next(nx, nx[p], fuel - 1)

\* top(), then next() until none
from_top(s) == walk_next(s.next, s.top, MaxNodes + 1)

\* bottom(), then prev() until none
from_bottom(s) == walk_next(s.prev, s.bottom, MaxNodes + 1)

\* where node n sits before an operation
position(s, n) ==
    IF ~is_attached(s, n) THEN "detached"
    ELSE IF s.top = n /\ s.bottom = n THEN "only"
    ELSE IF s.top = n THEN "top"
    ELSE IF s.bottom = n THEN "bottom"
    ELSE "mid"

Range(q) == {q[i] : i \in 1..Len(q)}

Reverse(q) == [i \in 1..Len(q) |-> q[Len(q) + 1 - i]]

(***************************************************************************)
(* How an operation ends.  A failed assert aborts a build with assertions  *)
(* and is compiled out under NDEBUG, where the program runs on.            *)
(***************************************************************************)
Running == status \in {"running", "ndebug"}

Outcomes(ok) ==
    IF ok THEN {status}
    ELSE IF status = "running" THEN {"aborted", "ndebug"} ELSE {"ndebug"}

\* the state an operation of abstract_scoped leaves behind; `ok` tells whether
\* the asserts it evaluates hold
Commit(s, ok) ==
    /\ m_next' = s.next
    /\ m_prev' = s.prev
    /\ s_top' = s.top
    /\ s_bottom' = s.bottom
    /\ status' \in Outcomes(ok)

\* the record of attachments: `made` (<<>> or <<n>>) was attached by a
\* constructor, the nodes of `gone` were detached, the nodes of `died` destroyed
Note(s, made, gone, died) ==
    /\ attached' = (attached \ gone) \cup Range(made)
    /\ history' = IF "order" \in observe
                  THEN SelectSeq(history, LAMBDA x : x \notin gone \cup Range(made)) \o made
                  ELSE history
    /\ mid' = IF "order" \in observe
              THEN (mid \ (gone \cup Range(made))) \cup {n \in Range(made) : s.top # n}
              ELSE mid
    /\ hidden' = [i \in 1..Len(hidden) |->
                    [hidden[i] EXCEPT !.born = (@ \ died) \cup Range(made)]]
    /\ UNCHANGED <<observe, lifo, parked>>

\* the record of the operation that ran: its name and where its operand sat
\* ("ops"), or whether it was the construction or destruction of a haven ("havens")
Did(op, pos) ==
    last' = IF "ops" \in observe THEN [op |-> op, pos |-> pos]
            ELSE IF "havens" \in observe
                 THEN [op |-> IF op \in {"haven_ctor", "haven_dtor"} THEN op ELSE "node",
                       pos |-> "none"]
            ELSE last

\* addresses some pointer still refers to
referenced ==
    {s_top, s_bottom}
    \cup {m_next[n] : n \in Nodes} \cup {m_prev[n] : n \in Nodes}
    \cup {havens[i].m_saved_top : i \in 1..Len(havens)}
    \cup {havens[i].m_saved_bottom : i \in 1..Len(havens)}

\* The storage a new node gets.  Addresses are interchangeable and no pointer
\* refers to a free one (NoDangling), so the lowest free address stands for all.
storage ==
    LET free == Nodes \ live
    IN {n \in free : \A k \in free : n <= k}

\* no pointer refers to an address without an object
NoDangling == referenced \subseteq live \cup {NULL}

\* the calling code between two statements; `pc` is the statement in progress,
\* `p` and `seen` the pointer of a traversal and the nodes it has visited, `n`,
\* `tmp` and `before` the target of an assignment of a payload, its temporary
\* holder and the chain and payloads the assignment found
no_call == [pc |-> "idle", p |-> NULL, seen |-> <<>>, n |-> NULL, tmp |-> NULL,
            before |-> <<>>]

\* a vector without elements; `elems` are the holders in its storage in index
\* order, `fresh` those re-created so far in the storage it is growing into,
\* `before` the values bottom() and prev() visited when push_back began
no_vector == [phase |-> "idle", elems |-> <<>>, fresh |-> <<>>, before |-> <<>>, arg |-> 0]

\* the instance of s_top and s_bottom of a thread (or tag) that has not run yet,
\* with the havens and the nodes of its code
nobody == [s_top |-> NULL, s_bottom |-> NULL, havens |-> <<>>, hidden |-> <<>>, owns |-> {}]

InitWith(obs) ==
    /\ observe = obs
    /\ live = {}
    /\ m_next = [n \in Nodes |-> NULL]
    /\ m_prev = [n \in Nodes |-> NULL]
    /\ m_value = [n \in Nodes |-> 0]
    /\ s_top = NULL
    /\ s_bottom = NULL
    /\ havens = <<>>
    /\ hidden = <<>>
    /\ status = "running"
    /\ attached = {}
    /\ history = <<>>
    /\ mid = {}
    /\ last = [op |-> "none", pos |-> "none"]
    /\ lifo = TRUE
    /\ vec = no_vector
    /\ caller = no_call
    /\ parked = nobody

Init == InitWith({"havens"})

InitChain == InitWith({"ops"})

InitOrder == InitWith({"order"})

\* Havens and nodes are nested: a node constructed before a haven outlives it,
\* and a haven outlives the nodes constructed inside it.
in_innermost_scope(n) ==
    IF havens = <<>> THEN TRUE ELSE n \in hidden[Len(hidden)].born

\* polymorphic_scoped(Args&&...): base(), m_value{args...}
ctor(self, v) ==
    /\ Running
    /\ self \in storage
    /\ LET s0 == init_links(Links, self)
           s1 == insert(s0, self, s0.top)
       IN /\ Commit(s1,
                    /\ ~is_attached(s0, self)
                    /\ check_class_invariant(s1)
                    /\ check_instance_invariant(s1, self))
          /\ Note(s1, <<self>>, {}, {})
    /\ live' = live \cup {self}
    /\ m_value' = [m_value EXCEPT ![self] = v]
    /\ Did("ctor", "none")
    /\ UNCHANGED havens

\* polymorphic_scoped(const polymorphic_scoped&) = default, over
\* abstract_scoped(const abstract_scoped&)
copy_ctor(self, other) ==
    /\ Running
    /\ self \in storage
    /\ other \in live
    /\ LET s0 == init_links(Links, self)
           s1 == insert(s0, self, other)
       IN /\ Commit(s1,
                    /\ ~is_attached(s0, self)
                    /\ check_class_invariant(s1)
                    /\ check_instance_invariant(s1, self)
                    /\ check_instance_invariant(s1, other))
          /\ Note(s1, <<self>>, {}, {})
    /\ live' = live \cup {self}
    /\ m_value' = [m_value EXCEPT ![self] = m_value[other]]
    /\ Did("copy_ctor", position(Links, other))
    /\ UNCHANGED havens

\* a plausible bug: the move constructor attaches as the default constructor
\* does, at the top, before it detaches `other`
move_ctor_push(self, other) ==
    /\ Running
    /\ self \in storage
    /\ other \in live
    /\ LET s0 == init_links(Links, self)
           s1 == insert(s0, self, s0.top)
           s2 == detach(s1, other)
       IN /\ Commit(s2,
                    /\ ~is_attached(s0, self)
                    /\ check_class_invariant(s2)
                    /\ check_instance_invariant(s2, self)
                    /\ check_instance_invariant(s2, other))
          /\ Note(s2, <<self>>, {other}, {})
    /\ live' = live \cup {self}
    /\ m_value' = [m_value EXCEPT ![self] = m_value[other]]
    /\ Did("move_ctor", position(Links, other))
    /\ UNCHANGED havens

\* polymorphic_scoped(polymorphic_scoped&&) = default, over
\* abstract_scoped(abstract_scoped&&)
move_ctor(self, other) ==
    /\ Running
    /\ self \in storage
    /\ other \in live
    /\ LET s0 == init_links(Links, self)
           s1 == insert(s0, self, other)
           s2 == detach(s1, other)
       IN /\ Commit(s2,
                    /\ ~is_attached(s0, self)
                    /\ check_class_invariant(s2)
                    /\ check_instance_invariant(s2, self)
                    /\ check_instance_invariant(s2, other))
          /\ Note(s2, <<self>>, {other}, {})
    /\ live' = live \cup {self}
    /\ m_value' = [m_value EXCEPT ![self] = m_value[other]]
    /\ Did("move_ctor", position(Links, other))
    /\ UNCHANGED havens

\* a plausible bug: the assignment copies the links of `other` as any member
copy_assign_memberwise(self, other) ==
    /\ Running
    /\ self \in live
    /\ other \in live
    /\ LET s0 == [Links EXCEPT !.next[self] = m_next[other],
                               !.prev[self] = m_prev[other]]
       IN /\ Commit(s0,
                    /\ check_class_invariant(s0)
                    /\ check_instance_invariant(s0, self)
                    /\ check_instance_invariant(s0, other))
          /\ Note(s0, <<>>, {}, {})
    /\ m_value' = [m_value EXCEPT ![self] = m_value[other]]
    /\ Did("copy_assign", position(Links, other))
    /\ UNCHANGED <<live, havens>>

\* polymorphic_scoped::operator=(const polymorphic_scoped&) = default, over
\* abstract_scoped::operator=(const abstract_scoped&)
copy_assign(self, other) ==
    /\ Running
    /\ self \in live
    /\ other \in live
    /\ LET s0 == Links
       IN /\ Commit(s0,
                    /\ check_class_invariant(s0)
                    /\ check_instance_invariant(s0, self)
                    /\ check_instance_invariant(s0, other))
          /\ Note(s0, <<>>, {}, {})
    /\ m_value' = [m_value EXCEPT ![self] = m_value[other]]
    /\ Did("copy_assign", position(Links, other))
    /\ UNCHANGED <<live, havens>>

\* a plausible bug: the move assignment takes the links of `other` as any member
move_assign_memberwise(self, other) ==
    /\ Running
    /\ self \in live
    /\ other \in live
    /\ LET s0 == [Links EXCEPT !.next[self] = m_next[other],
                               !.prev[self] = m_prev[other]]
           s1 == [s0 EXCEPT !.next[other] = NULL, !.prev[other] = NULL]
       IN /\ Commit(s1,
                    /\ check_class_invariant(s1)
                    /\ check_instance_invariant(s1, self)
                    /\ check_instance_invariant(s1, other))
          /\ Note(s1, <<>>, {other}, {})
    /\ m_value' = [m_value EXCEPT ![self] = m_value[other]]
    /\ Did("move_assign", position(Links, other))
    /\ UNCHANGED <<live, havens>>

\* polymorphic_scoped::operator=(polymorphic_scoped&&) = default, over
\* abstract_scoped::operator=(abstract_scoped&&)
move_assign(self, other) ==
    /\ Running
    /\ self \in live
    /\ other \in live
    /\ LET s0 == Links
           s1 == detach(s0, other)
       IN /\ Commit(s1,
                    /\ check_class_invariant(s1)
                    /\ check_instance_invariant(s1, self)
                    /\ check_instance_invariant(s1, other))
          /\ Note(s1, <<>>, {other}, {})
    /\ m_value' = [m_value EXCEPT ![self] = m_value[other]]
    /\ Did("move_assign", position(Links, other))
    /\ UNCHANGED <<live, havens>>

\* ~polymorphic_scoped() = default, over abstract_scoped::~abstract_scoped
dtor(self) ==
    /\ Running
    /\ self \in live
    /\ in_innermost_scope(self)
    /\ LET s0 == Links
           s1 == detach(s0, self)
       IN /\ Commit(s1,
                    /\ check_class_invariant(s1)
                    /\ check_instance_invariant(s1, self))
          /\ Note(s1, <<>>, {self}, {self})
    /\ live' = live \ {self}
    /\ m_value' = [m_value EXCEPT ![self] = 0]   \* the payload ends with the node
    /\ Did("dtor", position(Links, self))
    /\ UNCHANGED havens

\* scoped_haven::scoped_haven
haven_ctor ==
    /\ Running
    /\ Len(havens) + Len(parked.havens) < MaxHavens
    /\ havens' = Append(havens, [m_saved_top |-> s_top, m_saved_bottom |-> s_bottom])
    /\ hidden' = Append(hidden, [chain |-> from_top(Links), born |-> {}])
    /\ s_top' = NULL
    /\ s_bottom' = NULL
    /\ Did("haven_ctor", "none")
    /\ UNCHANGED <<live, m_next, m_prev, m_value, status, observe, attached, history, mid,
                   lifo, vec, caller, parked>>

\* scoped_haven::~scoped_haven; havens are automatic objects, destroyed innermost first
haven_dtor ==
    /\ Running
    /\ havens # <<>>
    /\ hidden[Len(hidden)].born = {}
    /\ s_top' = havens[Len(havens)].m_saved_top
    /\ s_bottom' = havens[Len(havens)].m_saved_bottom
    /\ havens' = SubSeq(havens, 1, Len(havens) - 1)
    /\ hidden' = SubSeq(hidden, 1, Len(hidden) - 1)
    /\ Did("haven_dtor", "none")
    /\ UNCHANGED <<live, m_next, m_prev, m_value, status, observe, attached, history, mid,
                   lifo, vec, caller, parked>>

\* the operations on nodes
NextChain ==
    \/ \E self \in Nodes, v \in Values : ctor(self, v) /\ UNCHANGED <<vec, caller>>
    \/ \E self \in Nodes, other \in Nodes : copy_ctor(self, other) /\ UNCHANGED <<vec, caller>>
    \/ \E self \in Nodes, other \in Nodes : move_ctor(self, other) /\ UNCHANGED <<vec, caller>>
    \/ \E self \in Nodes, other \in Nodes : copy_assign(self, other) /\ UNCHANGED <<vec, caller>>
    \/ \E self \in Nodes, other \in Nodes : move_assign(self, other) /\ UNCHANGED <<vec, caller>>
    \/ \E self \in Nodes : dtor(self) /\ UNCHANGED <<vec, caller>>

\* the operations on nodes and havens
Next ==
    \/ NextChain
    \/ haven_ctor
    \/ haven_dtor

\* one thread's chain of one (type, tag) without havens
SpecChain == InitChain /\ [][NextChain]_vars

\* the same, recording the order of attachment
SpecOrder == InitOrder /\ [][NextChain]_vars

\* one thread's chain of one (type, tag)
Spec == Init /\ [][Next]_vars

(***************************************************************************)
(* src/scoped.h: the earlier, concrete variant `scoped`, a singly linked   *)
(* stack with s_top only; it is the variant that offers get().  Its nodes  *)
(* use m_next, m_value and s_top; `history` lists the nodes alive, oldest  *)
(* construction first.  The class declares a destructor and no copy        *)
(* operations, so the compiler generates the memberwise copy constructor   *)
(* and copy assignment (and no move operations).  Nothing removes a node   *)
(* from the stack but its own destructor, so pointers may dangle and a new *)
(* node may get any free address.                                          *)
(***************************************************************************)
InitLegacy == InitWith({"legacy"})

\* the members the legacy operations never touch
legacy_frame == UNCHANGED <<m_prev, s_bottom, havens, hidden, status, observe, attached,
                            mid, last, vec, caller, parked>>

\* scoped(), scoped(const T&), scoped(T&&): m_value, then m_next(s_top), s_top = this;
\* scoped() leaves an int payload indeterminate, which v stands for as well
scoped_ctor(self, v) ==
    /\ self \in Nodes \ live
    /\ m_value' = [m_value EXCEPT ![self] = v]
    /\ m_next' = [m_next EXCEPT ![self] = s_top]
    /\ s_top' = self
    /\ live' = live \cup {self}
    /\ history' = Append(history, self)
    /\ UNCHANGED lifo
    /\ legacy_frame

\* the implicit scoped(const scoped&): copies m_value and m_next, leaves s_top
scoped_copy_ctor(self, other) ==
    /\ self \in Nodes \ live
    /\ other \in live
    /\ m_value' = [m_value EXCEPT ![self] = m_value[other]]
    /\ m_next' = [m_next EXCEPT ![self] = m_next[other]]
    /\ live' = live \cup {self}
    /\ history' = Append(history, self)
    /\ UNCHANGED <<s_top, lifo>>
    /\ legacy_frame

\* the implicit operator=(const scoped&): copies m_value and m_next
scoped_copy_assign(self, other) ==
    /\ self \in live
    /\ other \in live
    /\ m_value' = [m_value EXCEPT ![self] = m_value[other]]
    /\ m_next' = [m_next EXCEPT ![self] = m_next[other]]
    /\ UNCHANGED <<s_top, live, history, lifo>>
    /\ legacy_frame

\* ~scoped(): s_top = m_next; the members end with the node
scoped_dtor(self) ==
    /\ self \in live
    /\ s_top' = m_next[self]
    /\ live' = live \ {self}
    /\ history' = SelectSeq(history, LAMBDA x : x # self)
    /\ lifo' = (lifo /\ self = history[Len(history)])
    /\ m_next' = [m_next EXCEPT ![self] = NULL]
    /\ m_value' = [m_value EXCEPT ![self] = 0]
    /\ legacy_frame

\* scoped::top
top == s_top

\* scoped::get: the address of the payload of the top node, or none
get == IF s_top # NULL THEN [node |-> s_top, member |-> "m_value"] ELSE NULL

NextLegacy ==
    \/ \E self \in Nodes, v \in Values : scoped_ctor(self, v)
    \/ \E self \in Nodes, other \in Nodes : scoped_copy_ctor(self, other)
    \/ \E self \in Nodes, other \in Nodes : scoped_copy_assign(self, other)
    \/ \E self \in Nodes : scoped_dtor(self)

\* one thread's stack of one (type, tag) of the variant of src/scoped.h
SpecLegacy == InitLegacy /\ [][NextLegacy]_vars

(***************************************************************************)
(* tests/test_vector.cpp: holders kept in a std::vector beside holders of  *)
(* the code around it.  The vector constructs an element in place when its *)
(* storage has room; otherwise push_back takes new storage, re-creates     *)
(* each element there by copy or move construction from the old one,       *)
(* destroys the old elements and attaches the appended one.                *)
(***************************************************************************)
InitVector == InitWith({"vector"})

\* the values bottom() and prev() visit
walk_values ==
    LET q == from_bottom(Links)
    IN [i \in 1..Len(q) |-> m_value[q[i]]]

\* ScopedInt i1(10): a holder of the code around the vector
outside_ctor(self, v) ==
    /\ vec.phase = "idle"
    /\ ctor(self, v)
    /\ UNCHANGED <<vec, caller>>

\* the end of the scope of such a holder
outside_dtor(self) ==
    /\ vec.phase = "idle"
    /\ self \notin Range(vec.elems)
    /\ dtor(self)
    /\ UNCHANGED <<vec, caller>>

\* std::vector<ScopedInt> intvec{1}, emplace_back: an element constructed in
\* storage that has room
emplace_back(self, v) ==
    /\ vec.phase = "idle"
    /\ ctor(self, v)
    /\ vec' = [vec EXCEPT !.elems = Append(@, self)]
    /\ UNCHANGED caller

\* pop_back: the vector destroys its last element
pop_back(self) ==
    /\ vec.phase = "idle"
    /\ vec.elems # <<>>
    /\ self = vec.elems[Len(vec.elems)]
    /\ dtor(self)
    /\ vec' = [vec EXCEPT !.elems = SubSeq(@, 1, Len(@) - 1)]
    /\ UNCHANGED caller

\* intvec.push_back(2) without room: new storage for the elements
reallocate(v) ==
    /\ Running
    /\ vec.phase = "idle"
    /\ vec.elems # <<>>
    /\ Cardinality(Nodes \ live) >= Len(vec.elems)
    /\ vec' = [vec EXCEPT !.phase = "grow", !.fresh = <<>>, !.arg = v,
                          !.before = walk_values]
    /\ UNCHANGED <<live, m_next, m_prev, m_value, s_top, s_bottom, havens, hidden, status,
                   observe, attached, history, mid, last, lifo, caller, parked>>

\* the vector after the next element was re-created at address self
relocated(self) ==
    [vec EXCEPT !.fresh = Append(@, self),
                !.phase = IF Len(vec.fresh) + 1 = Len(vec.elems) THEN "drop" ELSE "grow"]

\* the next element is re-created in the new storage by copy construction
relocate_copy(self) ==
    /\ vec.phase = "grow"
    /\ copy_ctor(self, vec.elems[Len(vec.fresh) + 1])
    /\ vec' = relocated(self)
    /\ UNCHANGED caller

\* the next element is re-created in the new storage by move construction
relocate_move(self) ==
    /\ vec.phase = "grow"
    /\ move_ctor(self, vec.elems[Len(vec.fresh) + 1])
    /\ vec' = relocated(self)
    /\ UNCHANGED caller

\* the elements of the old storage are destroyed, in index order
drop(self) ==
    /\ vec.phase = "drop"
    /\ self = vec.elems[1]
    /\ dtor(self)
    /\ vec' = [vec EXCEPT !.elems = Tail(@),
                          !.phase = IF Len(vec.elems) = 1 THEN "append" ELSE "drop"]
    /\ UNCHANGED caller

\* the appended element is constructed behind the re-created ones
append(self) ==
    /\ vec.phase = "append"
    /\ ctor(self, vec.arg)
    /\ vec' = [vec EXCEPT !.elems = Append(vec.fresh, self), !.fresh = <<>>,
                          !.phase = "idle"]
    /\ UNCHANGED caller

NextVector ==
    \/ \E self \in Nodes, v \in Values : outside_ctor(self, v)
    \/ \E self \in Nodes : outside_dtor(self)
    \/ \E self \in Nodes, v \in Values : emplace_back(self, v)
    \/ \E self \in Nodes : pop_back(self)
    \/ \E v \in Values : reallocate(v)
    \/ \E self \in Nodes : relocate_copy(self)
    \/ \E self \in Nodes : relocate_move(self)
    \/ \E self \in Nodes : drop(self)
    \/ \E self \in Nodes : append(self)

\* one thread's chain of one (type, tag) with a vector of holders on it
SpecVector == InitVector /\ [][NextVector]_vars

(***************************************************************************)
(* Two threads, or two tag lists, on one payload type.  s_top and s_bottom *)
(* are thread_local static members of a class template: every thread and   *)
(* every abstract_scoped<T, Tags...> has its own instance.  The variables  *)
(* s_top, s_bottom hold the instance of the code that runs, with its       *)
(* havens; `parked` holds the other one.  Code works on nodes of its own:  *)
(* a node is of one class and stays with the thread that constructed it.   *)
(***************************************************************************)
InitThreads == InitWith({"threads"})

InitTags == InitWith({"tags"})

\* the nodes of the code that runs
own == live \ parked.owns

\* what is kept of the code that runs when the other one takes over
parking ==
    [s_top |-> s_top, s_bottom |-> s_bottom, havens |-> havens, hidden |-> hidden,
     owns |-> own]

\* a plausible bug: s_top and s_bottom are static but not thread_local
yield_shared ==
    /\ Running
    /\ havens' = parked.havens
    /\ hidden' = parked.hidden
    /\ parked' = parking
    /\ UNCHANGED <<s_top, s_bottom, live, m_next, m_prev, m_value, status, observe,
                   attached, history, mid, last, lifo, vec, caller>>

\* the scheduler runs the other thread: its operations use its instance of the
\* thread_local s_top and s_bottom
yield ==
    /\ Running
    /\ s_top' = parked.s_top
    /\ s_bottom' = parked.s_bottom
    /\ havens' = parked.havens
    /\ hidden' = parked.hidden
    /\ parked' = parking
    /\ UNCHANGED <<live, m_next, m_prev, m_value, status, observe, attached, history, mid,
                   last, lifo, vec, caller>>

\* a plausible bug: the static members belong to the payload type, whatever the tags
retag_shared ==
    /\ Running
    /\ havens' = parked.havens
    /\ hidden' = parked.hidden
    /\ parked' = parking
    /\ UNCHANGED <<s_top, s_bottom, live, m_next, m_prev, m_value, status, observe,
                   attached, history, mid, last, lifo, vec, caller>>

\* the thread goes on with code that uses the other tag list: its operations
\* use the s_top and s_bottom of abstract_scoped<T, OtherTags...>
retag ==
    /\ Running
    /\ s_top' = parked.s_top
    /\ s_bottom' = parked.s_bottom
    /\ havens' = parked.havens
    /\ hidden' = parked.hidden
    /\ parked' = parking
    /\ UNCHANGED <<live, m_next, m_prev, m_value, status, observe, attached, history, mid,
                   last, lifo, vec, caller>>

\* the operations of the code that runs, on its nodes and havens; the payload
\* plays no part in the anchors, so the holders here are value-initialised
NextOwn ==
    \/ \E self \in Nodes : ctor(self, 0) /\ UNCHANGED <<vec, caller>>
    \/ \E self \in Nodes, other \in own : copy_ctor(self, other) /\ UNCHANGED <<vec, caller>>
    \/ \E self \in Nodes, other \in own : move_ctor(self, other) /\ UNCHANGED <<vec, caller>>
    \/ \E self \in own, other \in own : copy_assign(self, other) /\ UNCHANGED <<vec, caller>>
    \/ \E self \in own, other \in own : move_assign(self, other) /\ UNCHANGED <<vec, caller>>
    \/ \E self \in own : dtor(self) /\ UNCHANGED <<vec, caller>>
    \/ haven_ctor
    \/ haven_dtor

NextThreads ==
    \/ NextOwn
    \/ yield

NextTags ==
    \/ NextOwn
    \/ retag

\* two threads on the chain of one (type, tag)
SpecThreads == InitThreads /\ [][NextThreads]_vars

\* one thread on the chains of two tag lists of one payload type
SpecTags == InitTags /\ [][NextTags]_vars

(***************************************************************************)
(* The lookups, as the calling code uses them: a loop from top() along     *)
(* next() (examples/ex3_event_counter.cpp, examples/ex4_decorator.cpp) or  *)
(* from bottom() along prev() (tests/test_vector.cpp), asking each node it *)
(* visits is_attached().  The body of such a loop constructs and destroys  *)
(* no holder, so the operations on nodes run between two loops.            *)
(***************************************************************************)
InitWalk == InitWith({"walk"})

\* the lookups assign nothing
walk_frame == UNCHANGED <<live, m_next, m_prev, m_value, s_top, s_bottom, havens, hidden,
                          status, observe, attached, history, mid, last, lifo, vec,
                          parked>>

\* auto p = top(): the loop begins
walk_top ==
    /\ Running
    /\ caller.pc = "idle"
    /\ caller' = [no_call EXCEPT !.pc = "next", !.p = s_top]
    /\ walk_frame

\* auto p = bottom(): the loop begins
walk_bottom ==
    /\ Running
    /\ caller.pc = "idle"
    /\ caller' = [no_call EXCEPT !.pc = "prev", !.p = s_bottom]
    /\ walk_frame

\* a plausible bug: a lookup that consumes the link it follows
walk_step_unlinking ==
    /\ caller.pc \in {"next", "prev"}
    /\ caller.p # NULL
    /\ Len(caller.seen) <= MaxNodes
    /\ caller' = [caller EXCEPT
                    !.seen = Append(@, [node |-> caller.p,
                                        is_attached |-> is_attached(Links, caller.p)]),
                    !.p = IF caller.pc = "next" THEN m_next[caller.p] ELSE m_prev[caller.p]]
    /\ m_next' = [m_next EXCEPT ![caller.p] = NULL]
    /\ UNCHANGED <<live, m_prev, m_value, s_top, s_bottom, havens, hidden,
                   status, observe, attached, history, mid, last, lifo, vec, parked>>

\* one turn of the loop: p is not null, the body asks p->is_attached(), then
\* p = p->next() or p = p->prev(); a loop is cut after MaxNodes + 1 turns
walk_step ==
    /\ caller.pc \in {"next", "prev"}
    /\ caller.p # NULL
    /\ Len(caller.seen) <= MaxNodes
    /\ caller' = [caller EXCEPT
                    !.seen = Append(@, [node |-> caller.p,
                                        is_attached |-> is_attached(Links, caller.p)]),
                    !.p = IF caller.pc = "next" THEN m_next[caller.p] ELSE m_prev[caller.p]]
    /\ walk_frame

\* p is null: the loop ends
walk_end ==
    /\ caller.pc \in {"next", "prev"}
    /\ caller.p = NULL
    /\ caller' = no_call
    /\ walk_frame

\* the nodes a loop has visited so far
walk_seen == [i \in 1..Len(caller.seen) |-> caller.seen[i].node]

NextWalk ==
    \/ caller.pc = "idle" /\ NextChain
    \/ walk_top
    \/ walk_bottom
    \/ walk_step
    \/ walk_end

\* one thread's chain of one (type, tag) without havens, and the loops of the
\* calling code over it
SpecWalk == InitWalk /\ [][NextWalk]_vars


(***************************************************************************)
(* tests/test_move.cpp: si2 = 20 assigns a payload to a holder.  The       *)
(* converting constructor of polymorphic_scoped makes a temporary holder   *)
(* of the payload, operator=(polymorphic_scoped&&) assigns it, and the     *)
(* temporary is destroyed at the end of the statement.                     *)
(***************************************************************************)
InitAssign == InitWith({"assign"})

\* n = v begins: the temporary polymorphic_scoped(v) at address tmp; `before`
\* keeps the links, payloads and nodes the statement found, and v
assign_temp(n, tmp, v) ==
    /\ caller.pc = "idle"
    /\ n \in live
    /\ ctor(tmp, v)
    /\ caller' = [no_call EXCEPT !.pc = "assign", !.n = n, !.tmp = tmp,
                                 !.before = <<Links, m_value, live, v>>]
    /\ UNCHANGED vec

\* n.operator=(std::move(temporary))
assign_move ==
    /\ caller.pc = "assign"
    /\ move_assign(caller.n, caller.tmp)
    /\ caller' = [caller EXCEPT !.pc = "destroy"]
    /\ UNCHANGED vec

\* the end of the statement: the temporary is destroyed
assign_end ==
    /\ caller.pc = "destroy"
    /\ dtor(caller.tmp)
    /\ caller' = [caller EXCEPT !.pc = "idle"]
    /\ UNCHANGED vec

NextAssign ==
    \/ caller.pc = "idle" /\ NextChain
    \/ \E n \in Nodes, tmp \in Nodes, v \in Values : assign_temp(n, tmp, v)
    \/ assign_move
    \/ assign_end

\* one thread's chain of one (type, tag) without havens, with assignments of
\* payloads to its holders
SpecAssign == InitAssign /\ [][NextAssign]_vars

(***************************************************************************)
(* tests/test_simple.cpp, tests/test_manifest.cpp: a function deep in the  *)
(* call chain that looks the threshold up.                                 *)
(***************************************************************************)
\* a plausible bug: the threshold itself passes
get_number_above(x) ==
    IF s_top # NULL /\ x > m_value[s_top] THEN -1 ELSE x

\* get_number
get_number(x) ==
    IF s_top # NULL /\ x >= m_value[s_top] THEN -1 ELSE x

\* the arguments get_number is called with: those of the tests, the threshold
\* itself and the sentinel
Inputs == {-1, 3, 4, 10}

(***************************************************************************)
(* Claims.                                                                 *)
(***************************************************************************)
chain == from_top(Links)

\* C1: after every node operation top is empty iff bottom is empty; top has no
\* prev and bottom no next; the walk from top via next() visits exactly the
\* attached nodes, each once, ends at bottom and then yields none; the walk
\* from bottom via prev() visits them in the reverse order and ends at top.
C1_ChainWellFormed ==
    /\ (s_top = NULL) <=> (s_bottom = NULL)
    /\ s_top # NULL => m_prev[s_top] = NULL /\ m_next[s_bottom] = NULL
    /\ Range(chain) = attached
    /\ Len(chain) = Cardinality(attached)
    /\ chain # <<>> => chain[Len(chain)] = s_bottom
    /\ from_bottom(Links) = Reverse(chain)
    /\ from_bottom(Links) # <<>> => from_bottom(Links)[Len(chain)] = s_top

\* C1 witness: two nodes are left attached after the middle one of three was
\* destroyed.
C1_Witness ==
    /\ last = [op |-> "dtor", pos |-> "mid"]
    /\ Len(chain) = 2

\* C2: destroying an attached node, wherever it sits, removes exactly that
\* node: the chain is one shorter and the other nodes keep their order, from
\* top via next() and from bottom via prev().
C2_DtorDetaches ==
    [][\A n \in Nodes :
         (dtor(n) /\ n \in attached) =>
            /\ from_top(Links') = SelectSeq(chain, LAMBDA x : x # n)
            /\ Len(from_top(Links')) = Len(chain) - 1
            /\ from_bottom(Links') = Reverse(from_top(Links'))
            /\ ~is_attached(Links', n)]_vars

\* C2 witness: a node in the middle of the chain was destroyed.
C2_Witness == last = [op |-> "dtor", pos |-> "mid"]

\* C3: constructing a holder from payload v puts it at the top: top() is the
\* new node with value v, its next() is the former top, bottom() is unchanged
\* for a non-empty chain and is the new node for an empty one.
C3_CtorAtTop ==
    [][\A n \in Nodes, v \in Values :
         ctor(n, v) =>
            /\ s_top' = n
            /\ m_value'[s_top'] = v
            /\ m_next'[n] = s_top
            /\ m_prev'[n] = NULL
            /\ s_bottom # NULL => s_bottom' = s_bottom
            /\ s_bottom = NULL => s_bottom' = n]_vars

\* C3 witness: a holder was constructed on a non-empty chain.
C3_Witness ==
    /\ last.op = "ctor"
    /\ Len(chain) >= 2

\* the node attached most recently among those not yet detached
newest == history[Len(history)]

\* C4 as claimed: whenever a node is attached, top() is the node attached most
\* recently (by default, copy or move construction) and not yet detached.
C4_TopIsNewest == history # <<>> => s_top = newest

\* C4 amended: whenever a node is attached and every attached node was left at
\* the top by its constructor (default construction, or copy or move
\* construction from the top or from a detached node), top() is the node
\* attached most recently and not yet detached.
C4_TopIsNewestAtTop ==
    (history # <<>> /\ Range(history) \cap mid = {}) => s_top = newest

\* C4 witness: two nodes constructed at the top are attached, beside a third
\* node that is alive and was detached by a move.
C4_Witness ==
    /\ Len(history) = 2
    /\ mid = {}
    /\ Cardinality(live) = 3

\* the chain with node s replaced by node d
Replaced(q, s, d) == [i \in 1..Len(q) |-> IF q[i] = s THEN d ELSE q[i]]

\* C5: move-constructing d from an attached s leaves s detached and d where s
\* was: same next and prev, top iff s was top, bottom iff s was bottom, and the
\* chain as long as before.
C5_MoveCtorReplaces ==
    [][\A d \in Nodes, s \in Nodes :
         (move_ctor(d, s) /\ s \in attached) =>
            /\ ~is_attached(Links', s)
            /\ m_next'[s] = NULL /\ m_prev'[s] = NULL
            /\ m_next'[d] = m_next[s]
            /\ m_prev'[d] = m_prev[s]
            /\ (s_top' = d) <=> (s_top = s)
            /\ (s_bottom' = d) <=> (s_bottom = s)
            /\ Len(from_top(Links')) = Len(chain)
            /\ from_top(Links') = Replaced(chain, s, d)]_vars

\* C5 witness: a node was move-constructed from the bottom node of a longer chain.
C5_Witness ==
    /\ last = [op |-> "move_ctor", pos |-> "bottom"]
    /\ Len(chain) >= 2

\* C6: copy-constructing c from an attached s puts c directly above s: c.next()
\* is s, c.prev() is the former prev of s (c is the top if there was none), s
\* stays attached, the chain grows by one and the other nodes keep their order.
C6_CopyCtorAbove ==
    [][\A c \in Nodes, s \in Nodes :
         (copy_ctor(c, s) /\ s \in attached) =>
            /\ m_next'[c] = s
            /\ m_prev'[c] = m_prev[s]
            /\ m_prev'[s] = c
            /\ m_prev[s] = NULL => s_top' = c
            /\ is_attached(Links', s)
            /\ m_next'[s] = m_next[s]
            /\ Len(from_top(Links')) = Len(chain) + 1
            /\ SelectSeq(from_top(Links'), LAMBDA x : x # c) = chain
            /\ from_bottom(Links') = Reverse(from_top(Links'))]_vars

\* C6 witness: a node was copy-constructed from a node below the top.
C6_Witness ==
    /\ last = [op |-> "copy_ctor", pos |-> "bottom"]
    /\ Len(chain) = 3

\* C7 as claimed: move-assignment d = std::move(s) between two nodes detaches
\* s, leaves the links of d unchanged, gives d the payload of s, and shortens
\* the chain by one when s was attached.
C7_MoveAssignKeepsLinks ==
    [][\A d \in Nodes, s \in Nodes :
         (move_assign(d, s) /\ d # s) =>
            /\ ~is_attached(Links', s)
            /\ m_next'[d] = m_next[d]
            /\ m_prev'[d] = m_prev[d]
            /\ m_value'[d] = m_value[s]
            /\ s \in attached => Len(from_top(Links')) = Len(chain) - 1]_vars

\* C7 amended: move-assignment d = std::move(s) between two nodes detaches s
\* and leaves d attached where it was among the remaining nodes: the chain is
\* the former chain without s, so a link of d changes only where s was its
\* neighbour, and then to the neighbour of s on the far side; d gets the
\* payload of s, and the chain is one shorter when s was attached.
C7_MoveAssignKeepsPlace ==
    [][\A d \in Nodes, s \in Nodes :
         (move_assign(d, s) /\ d # s) =>
            /\ ~is_attached(Links', s)
            /\ from_top(Links') = SelectSeq(chain, LAMBDA x : x # s)
            /\ from_bottom(Links') = Reverse(from_top(Links'))
            /\ is_attached(Links', d) <=> is_attached(Links, d)
            /\ m_next'[d] = IF m_next[d] = s THEN m_next[s] ELSE m_next[d]
            /\ m_prev'[d] = IF m_prev[d] = s THEN m_prev[s] ELSE m_prev[d]
            /\ m_value'[d] = m_value[s]
            /\ s \in attached => Len(from_top(Links')) = Len(chain) - 1]_vars

\* C7 witness: the middle node of three was moved from by assignment, so the
\* destination, if another node, was its neighbour.
C7_Witness ==
    /\ last = [op |-> "move_assign", pos |-> "mid"]
    /\ Len(chain) = 2

\* C8: copy-assignment d = s changes no link: every next and prev and the top
\* and bottom are what they were; only the payload of d may change.
C8_CopyAssignKeepsLinks ==
    [][\A d \in Nodes, s \in Nodes :
         copy_assign(d, s) =>
            /\ Links' = Links
            /\ m_value' = [m_value EXCEPT ![d] = m_value[s]]
            /\ live' = live]_vars

\* C8 witness: a node of a chain of three was copy-assigned from another one.
C8_Witness ==
    /\ last.op = "copy_assign"
    /\ last.pos # "detached"
    /\ Len(chain) = 3
    /\ \E n \in Nodes : m_value[n] # m_value[s_top]

\* the nodes the havens alive found attached when they were constructed
hidden_nodes == UNION {Range(hidden[i].chain) : i \in 1..Len(hidden)}

\* C9: constructing a haven empties top() and bottom(); destroying it, after
\* every node constructed inside it was destroyed (the guard of haven_dtor),
\* sets top and bottom back to the nodes they were, and the walks over the
\* restored chain visit the nodes they visited before the haven, in the same
\* order.  Stated for runs in which no assert has failed.
C9_HavenRestores ==
    [][/\ haven_ctor => (s_top' = NULL /\ s_bottom' = NULL)
       /\ (haven_dtor /\ status = "running") =>
             LET was == hidden[Len(hidden)].chain
             IN /\ s_top' = havens[Len(havens)].m_saved_top
                /\ s_bottom' = havens[Len(havens)].m_saved_bottom
                /\ s_top' = IF was = <<>> THEN NULL ELSE was[1]
                /\ from_top(Links') = was
                /\ from_bottom(Links') = Reverse(was)]_vars

\* C10: while a haven is alive no walk from top() or bottom() reaches a node
\* that was attached when the haven was constructed, and every node
\* construction (default, copy or move, from any source) attaches the new node
\* to the chain built inside the haven and leaves the links of the hidden
\* nodes unchanged.
C10_HavenIsolates ==
    [][/\ havens' # <<>> =>
             (Range(from_top(Links')) \cup Range(from_bottom(Links')))
                 \cap hidden_nodes' = {}
       /\ \A n \in Nodes, s \in Nodes :
             (/\ havens # <<>>
              /\ copy_ctor(n, s) \/ move_ctor(n, s) \/ \E v \in Values : ctor(n, v)) =>
                /\ n \in Range(from_top(Links'))
                /\ \A h \in hidden_nodes :
                      m_next'[h] = m_next[h] /\ m_prev'[h] = m_prev[h]]_vars

\* C11: whenever no node is attached - initially, and after every node was
\* destroyed, in any order - top() and get() return none (the variant with
\* get() has no bottom()), and the lookup reaches no destroyed node.
C11_EmptyLookup ==
    live = {} => (top = NULL /\ get = NULL)

\* C12: detach is idempotent: destroying a node that is already detached, or
\* moving from it again by assignment, changes no link and neither top nor
\* bottom; and a node that a move has just detached is left so that detaching
\* it once more changes nothing.
C12_DetachIdempotent ==
    [][/\ \A n \in Nodes :
             (dtor(n) /\ n \notin attached) => Links' = Links
       /\ \A d \in Nodes, s \in Nodes :
             (move_assign(d, s) /\ s \notin attached) => Links' = Links
       /\ \A d \in Nodes, s \in Nodes :
             (move_assign(d, s) \/ move_ctor(d, s)) =>
                (detach(Links', s) = Links' /\ s \notin attached')]_vars

\* C12 witness: a node detached earlier was destroyed while two other nodes
\* were attached.
C12_Witness ==
    /\ last = [op |-> "dtor", pos |-> "detached"]
    /\ Len(chain) = 2

\* C13: when push_back has re-created every element of the vector in new
\* storage, by copy or move construction from the old element, destroyed the
\* old elements and attached the appended element, the walk from bottom() via
\* prev() yields the values it yielded before, in the same order (the values
\* of holders outside the vector among them), followed by the appended value,
\* which is at the top.
C13_RelocationKeepsOrder ==
    [][\A self \in Nodes :
         append(self) =>
            /\ walk_values' = Append(vec.before, vec.arg)
            /\ s_top' = self
            /\ m_value'[s_top'] = vec.arg]_vars

\* C13 witness: push_back has run on a vector of one element beside a holder
\* outside it with another value, and three values are now on the chain.
C13_Witness ==
    /\ vec.phase = "idle"
    /\ Len(vec.elems) = 2
    /\ Len(vec.before) = 2
    /\ vec.before[1] # vec.before[2]
    /\ walk_values = Append(vec.before, vec.arg)

\* the pointers the code that runs can follow, and those of the code that does not
reach_own == {s_top, s_bottom} \cup {m_next[n] : n \in own} \cup {m_prev[n] : n \in own}

reach_parked ==
    {parked.s_top, parked.s_bottom}
    \cup {m_next[n] : n \in parked.owns} \cup {m_prev[n] : n \in parked.owns}

\* C14: two threads on the same (type, tag) have an anchor each: for every
\* interleaving of their constructions, copies, moves, assignments,
\* destructions and havens, no operation of the thread that runs changes the
\* top or bottom of the other thread or a link of its nodes, the chains of the
\* two threads never reach into each other, and a thread that is resumed finds
\* its top and bottom as it left them.
C14_ThreadsIsolated ==
    /\ [](reach_own \subseteq own \cup {NULL} /\ reach_parked \subseteq parked.owns \cup {NULL})
    /\ [][/\ \A n \in parked.owns :
                /\ n \in live'
                /\ m_next'[n] = m_next[n]
                /\ m_prev'[n] = m_prev[n]
          /\ yield => /\ s_top' = parked.s_top /\ s_bottom' = parked.s_bottom
                      /\ parked'.s_top = s_top /\ parked'.s_bottom = s_bottom
          /\ ~yield => (parked' = parked /\ own' \cap parked.owns = {})]_vars

\* C14 witness: both threads have nodes attached, the running one two of them,
\* and the other thread is inside a haven.
C14_Witness ==
    /\ "threads" \in observe
    /\ Len(chain) = 2
    /\ parked.s_top # NULL
    /\ parked.havens # <<>>

\* C15: the chains of two tag lists over one payload type are apart: an
\* operation on the chain of one tag list (construction, copy, move,
\* assignment, destruction, haven entry or exit) leaves the top and bottom of
\* the other chain and every link of its nodes unchanged.
C15_TagsIndependent ==
    [][~retag =>
         /\ parked'.s_top = parked.s_top
         /\ parked'.s_bottom = parked.s_bottom
         /\ \A n \in parked.owns :
               m_next'[n] = m_next[n] /\ m_prev'[n] = m_prev[n] /\ n \in parked'.owns
         /\ walk_next(m_next', parked'.s_top, MaxNodes + 1)
               = walk_next(m_next, parked.s_top, MaxNodes + 1)]_vars

\* C15 witness: a haven was entered on one chain while the chain of the other
\* tag list has two nodes attached.
C15_Witness ==
    /\ "tags" \in observe
    /\ havens # <<>>
    /\ s_top = NULL
    /\ Len(walk_next(m_next, parked.s_top, MaxNodes + 1)) = 2

\* C16: nodes default-constructed one after another, none destroyed, are
\* walked from top() via next() youngest first down to the oldest, after which
\* next() yields none, and from bottom() via prev() oldest first; value() of a
\* visited node is the payload it was constructed with.  In two parts: a
\* default construction leaves the new node, with its payload, at the top and
\* no other node away from where it was; and every chain whose attached nodes
\* were all left at the top by their constructors is walked in that order.
C16_WalkOrder ==
    /\ [](Range(history) \cap mid = {} =>
             /\ from_top(Links) = Reverse(history)
             /\ from_bottom(Links) = history
             /\ history # <<>> => (m_next[history[1]] = NULL /\ m_prev[newest] = NULL))
    /\ [][\A n \in Nodes, v \in Values :
            ctor(n, v) =>
               /\ n \notin mid' /\ newest' = n
               /\ mid' = mid
               /\ m_value'[n] = v
               /\ \A k \in Nodes \ {n} : m_value'[k] = m_value[k]]_vars

\* C16 witness: three nodes constructed in a row are attached, the oldest
\* and the youngest with different payloads.
C16_Witness ==
    /\ Len(history) = 3
    /\ mid = {}
    /\ from_top(Links) = Reverse(history)
    /\ m_value[history[1]] # m_value[history[3]]

\* C17: get_number(x) is -1 when a threshold is at the top of the chain and
\* x >= its value, and x otherwise: after a threshold v was constructed it is
\* -1 for x >= v and x below v (threshold 4: 3 for 3, -1 for 10), and once the
\* last threshold was destroyed it is x (10 for 10); after the top threshold
\* of several was destroyed the one below it decides.
C17_Threshold ==
    [][/\ \A n \in Nodes, v \in Values :
             ctor(n, v) =>
                \A x \in Inputs : get_number(x)' = IF x >= v THEN -1 ELSE x
       /\ \A n \in Nodes :
             (dtor(n) /\ attached = {n}) =>
                \A x \in Inputs : get_number(x)' = x
       /\ \A n \in Nodes :
             (dtor(n) /\ s_top = n /\ m_next[n] # NULL) =>
                \A x \in Inputs :
                   get_number(x)' = IF x >= m_value[m_next[n]] THEN -1 ELSE x]_vars

\* C17 witness: the threshold 4 was constructed, so that get_number(3) is 3
\* and get_number(10) the sentinel.
C17_Witness ==
    /\ last.op = "ctor"
    /\ Len(chain) = 1
    /\ m_value[s_top] = 4
    /\ get_number(3) = 3
    /\ get_number(10) = -1

\* C18: in the variant with get(), under last-in-first-out destruction, top()
\* is the node constructed most recently and not yet destroyed and get() is
\* the address of its payload whenever a node is alive, and both are none
\* when no node is alive.
C18_GetIsTop ==
    lifo => IF history = <<>>
            THEN top = NULL /\ get = NULL
            ELSE top = newest /\ get = [node |-> newest, member |-> "m_value"]

\* C20 as claimed: insert with an attached target puts the new node directly
\* below the target, toward the bottom: between the target and the neighbour
\* the target had on its bottom side.
C20_InsertBelow ==
    [][\A c \in Nodes, s \in Nodes :
         (copy_ctor(c, s) /\ s \in attached) =>
            /\ m_next'[s] = c
            /\ m_prev'[c] = s
            /\ m_next'[c] = m_next[s]]_vars

\* C20 amended: insert with an attached target puts the new node directly
\* above the target, toward the top: between the target and the neighbour the
\* target had on its top side, and at the top when the target was the top;
\* the bottom side of the target is left as it was.  The target is the source
\* of a copy construction, and the top for a default construction.
C20_InsertAbove ==
    [][/\ \A c \in Nodes, s \in Nodes :
             (copy_ctor(c, s) /\ s \in attached) =>
                /\ m_next'[c] = s /\ m_prev'[s] = c
                /\ m_prev'[c] = m_prev[s]
                /\ m_prev[s] # NULL => m_next'[m_prev[s]] = c /\ s_top' = s_top
                /\ m_prev[s] = NULL => s_top' = c
                /\ m_next'[s] = m_next[s] /\ s_bottom' = s_bottom
       /\ \A c \in Nodes, v \in Values :
             (ctor(c, v) /\ s_top # NULL) =>
                /\ m_next'[c] = s_top /\ m_prev'[s_top] = c
                /\ m_prev'[c] = NULL /\ s_top' = c
                /\ m_next'[s_top] = m_next[s_top] /\ s_bottom' = s_bottom]_vars

\* C20 witness: a node was inserted with the bottom node of two as its target
\* and now lies between the two.
C20_Witness ==
    /\ last = [op |-> "copy_ctor", pos |-> "bottom"]
    /\ s_top # NULL
    /\ m_next[s_top] # NULL
    /\ m_next[m_next[s_top]] = s_bottom

\* C21: copy- or move-constructing a node from a source that is not attached
\* (a moved-from node) attaches the new node at the top, exactly as a default
\* construction would, leaves the source detached and makes the chain one
\* longer.
C21_DetachedSourceAtTop ==
    [][\A c \in Nodes, s \in Nodes :
         ((copy_ctor(c, s) \/ move_ctor(c, s)) /\ s \notin attached) =>
            /\ Links' = insert(init_links(Links, c), c, s_top)
            /\ s_top' = c
            /\ m_next'[c] = s_top /\ m_prev'[c] = NULL
            /\ s_top # NULL => m_prev'[s_top] = c /\ s_bottom' = s_bottom
            /\ s_top = NULL => s_bottom' = c
            /\ ~is_attached(Links', s) /\ s \notin attached'
            /\ from_top(Links') = <<c>> \o chain
            /\ Len(from_top(Links')) = Len(chain) + 1]_vars

\* C21 witness: a node was move-constructed from a moved-from node while
\* another node was attached.
C21_Witness ==
    /\ last = [op |-> "move_ctor", pos |-> "detached"]
    /\ Len(chain) = 2
    /\ Cardinality(live) = 3

\* C22: in every reachable state, Havens included, every live node is either
\* fully detached (no next, no prev, neither the recorded top nor the
\* recorded bottom, referred to by no other node) or fully attached (its
\* next's prev is it, its prev's next is it, it has no prev exactly when it
\* is the recorded top and no next exactly when it is the recorded bottom).
C22_DetachedOrAttached ==
    \A n \in live :
        \/ /\ m_next[n] = NULL /\ m_prev[n] = NULL
           /\ s_top # n /\ s_bottom # n
           /\ \A o \in live \ {n} : m_next[o] # n /\ m_prev[o] # n
        \/ /\ m_next[n] # NULL => m_prev[m_next[n]] = n
           /\ m_prev[n] # NULL => m_next[m_prev[n]] = n
           /\ (m_prev[n] = NULL) = (s_top = n)
           /\ (m_next[n] = NULL) = (s_bottom = n)

\* C23: with strictly nested Havens on one thread, no sequence of
\* constructions, copy and move constructions, copy and move assignments,
\* destructions and Haven entries and exits makes an assertion fail.
C23_NoAssertFails == status = "running"

\* C24: in every reachable state is_attached() of a live node is true exactly
\* when a constructor attached the node and nothing has detached it since,
\* also while a Haven hides the chain the node belongs to.
C24_IsAttachedExact == \A n \in live : is_attached(Links, n) = (n \in attached)

\* C25: top(), bottom(), next(), prev() and is_attached() only read: a loop
\* over the chain changes neither the anchors nor any link, payload or node;
\* its pointer is always a live node or none, so stepping past either end
\* yields none; and a loop that has reached none has visited, whenever it is
\* run, the attached nodes, each once, from top to bottom along next() and
\* in the reverse order along prev(), every one of them reading as attached.
C25_LookupsOnlyRead ==
    /\ [](/\ caller.p \in live \cup {NULL}
          /\ \A i \in 1..Len(caller.seen) : caller.seen[i].is_attached
          /\ (caller.pc = "next" /\ caller.p = NULL) =>
                /\ walk_seen = chain
                /\ Range(walk_seen) = attached
                /\ Len(walk_seen) = Cardinality(attached)
          /\ (caller.pc = "prev" /\ caller.p = NULL) =>
                /\ walk_seen = Reverse(chain)
                /\ Range(walk_seen) = attached)
    /\ [][(walk_top \/ walk_bottom \/ walk_step \/ walk_end) =>
             UNCHANGED <<live, m_next, m_prev, m_value, s_top, s_bottom, status,
                         attached>>]_vars

\* C25 witness: a loop from top() along next() has visited two nodes and
\* reached none, beside a live node that is detached.
C25_Witness ==
    /\ caller.pc = "next"
    /\ caller.p = NULL
    /\ Len(caller.seen) = 2
    /\ Cardinality(live) = 3

C27_PayloadAssignKeepsChain ==
    [][/\ (assign_move /\ caller.n \in attached) =>
             /\ Links' = caller.before[1]
             /\ status' = "running"
       /\ (assign_end /\ caller.n \in attached) =>
             /\ Links' = caller.before[1]
             /\ from_top(Links') = from_top(caller.before[1])
             /\ from_bottom(Links') = from_bottom(caller.before[1])
             /\ live' = caller.before[3]
             /\ caller.n \in attached'
             /\ m_value' = [caller.before[2] EXCEPT ![caller.n] = caller.before[4]]
             /\ status' = "running"]_vars

\* C27 witness: a payload that differs from the former one was assigned to
\* the bottom node of a chain of two and the statement has ended.
C27_Witness ==
    /\ caller.pc = "idle"
    /\ caller.n # NULL
    /\ caller.n = s_bottom
    /\ Len(chain) = 2
    /\ m_value[caller.n] = caller.before[4]
    /\ caller.before[2][caller.n] # caller.before[4]
    /\ caller.before[1] = Links

====
